---------------------------- MODULE Spec2Model ----------------------------
(***************************************************************************)
(* A model of tracing.h: the Level order, Record, default_formatter, the   *)
(* Builder (constructor, from_env, init), the process-wide g_builder and   *)
(* the five emission entry points trace/debug/info/warning/error.          *)
(*                                                                         *)
(* Text is modelled as sequences of byte values (std::string), std::cout   *)
(* as the sequence of strings written to it, one element per operator<<    *)
(* call on the stream, and a std::function as the three words libstdc++    *)
(* keeps for it.                                                           *)
(***************************************************************************)
EXTENDS Naturals, Sequences, FiniteSets

(***************************************************************************)
(* Bounds of the model.                                                    *)
(***************************************************************************)
\* The number of writes std::cout may hold before emissions stop.
MaxWrites == 2

\* The number of entry point calls that may be in progress at once in one
\* thread (a call is in progress while std::format runs the formatter of a
\* user-defined argument, which may call the library again).
MaxDepth == 1

(***************************************************************************)
(* enum class Level : uint32_t                                             *)
(***************************************************************************)
Trace == 0
Debug == 1
Info == 2
Warning == 3
Error == 4

Level == {Trace, Debug, Info, Warning, Error}

\* operator<(Level, Level): compares the underlying uint32_t values.
Less(lhs, rhs) == lhs < rhs

\* The built-in operator> of the scoped enumeration, used by the entry points.
Greater(lhs, rhs) == lhs > rhs

(***************************************************************************)
(* Record                                                                  *)
(***************************************************************************)
\* Record(level, args, loc): the three fields, stored as given.
Record(level, args, loc) == [level |-> level, args |-> args, loc |-> loc]

get_level(record) == record.level

get_args(record) == record.args

get_loc(record) == record.loc

(***************************************************************************)
(* Text helpers: what operator<< and std::tolower do.                      *)
(***************************************************************************)
RECURSIVE Dec(_)
\* operator<<(unsigned): the decimal digits of n, most significant first.
Dec(n) == IF n < 10 THEN <<48 + n>> ELSE Dec(n \div 10) \o <<48 + (n % 10)>>

\* std::tolower in the "C" locale: 'A'..'Z' go to 'a'..'z', the rest stay.
tolower(c) == IF c >= 65 /\ c <= 90 THEN c + 32 ELSE c

\* std::transform(begin, end, begin, tolower)
transform_tolower(s) == [i \in 1..Len(s) |-> tolower(s[i])]

(***************************************************************************)
(* std::format on the templates the call sites use: "{}" takes the next    *)
(* argument, "{{" and "}}" are the escaped braces.  A template that does   *)
(* not match its arguments does not compile (std::format_string), so only  *)
(* matching call sites exist.                                              *)
(***************************************************************************)
\* One argument rendered by its formatter: a string as is, an unsigned
\* integer in decimal, a value of a user-defined type as the text its
\* std::formatter specialisation writes.
RenderArg(a) == IF a.kind = "int" THEN Dec(a.n) ELSE a.s

RECURSIVE FormatFrom(_, _, _, _)
FormatFrom(fmt, i, args, k) ==
  IF i > Len(fmt) THEN <<>>
  ELSE IF i < Len(fmt) /\ fmt[i] = 123 /\ fmt[i + 1] = 123
    THEN <<123>> \o FormatFrom(fmt, i + 2, args, k)
  ELSE IF i < Len(fmt) /\ fmt[i] = 125 /\ fmt[i + 1] = 125
    THEN <<125>> \o FormatFrom(fmt, i + 2, args, k)
  ELSE IF i < Len(fmt) /\ fmt[i] = 123 /\ fmt[i + 1] = 125
    THEN RenderArg(args[k]) \o FormatFrom(fmt, i + 2, args, k + 1)
  ELSE <<fmt[i]>> \o FormatFrom(fmt, i + 1, args, k)

\* std::format(fmt, args...)
Format(fmt, args) == FormatFrom(fmt, 1, args, 1)

(***************************************************************************)
(* default_formatter                                                       *)
(***************************************************************************)
\* The switch of default_formatter: the coloured level name.
LevelToken(level) ==
  CASE level = Trace -> <<27, 91, 51, 55, 109, 84, 82, 65, 67, 69, 27, 91, 48, 109>>
    [] level = Debug -> <<27, 91, 51, 52, 109, 68, 69, 66, 85, 71, 27, 91, 48, 109>>
    [] level = Info -> <<27, 91, 51, 50, 109, 73, 78, 70, 79, 27, 91, 48, 109>>
    [] level = Warning ->
         <<27, 91, 51, 51, 109, 87, 65, 82, 78, 73, 78, 71, 27, 91, 48, 109>>
    [] level = Error -> <<27, 91, 51, 49, 109, 69, 82, 82, 79, 82, 27, 91, 48, 109>>
    [] OTHER -> <<>>

\* A variant that resets the colour at the end of the line, not after the name.
MutDefaultLine(record) ==
  <<91>> \o SubSeq(LevelToken(get_level(record)), 1,
                   Len(LevelToken(get_level(record))) - 4)
    \o <<32>> \o get_loc(record).file_name
    \o <<58>> \o Dec(get_loc(record).line)
    \o <<58>> \o Dec(get_loc(record).column)
    \o <<93, 32>> \o get_args(record) \o <<27, 91, 48, 109>> \o <<10>>

\* The contents of the stringstream ss when it is written to the stream.
DefaultLine(record) ==
  <<91>> \o LevelToken(get_level(record))
    \o <<32>> \o get_loc(record).file_name
    \o <<58>> \o Dec(get_loc(record).line)
    \o <<58>> \o Dec(get_loc(record).column)
    \o <<93, 32>> \o get_args(record) \o <<10>>

\* default_formatter(ofs, record): one write of the whole line to ofs.
default_formatter(ofs, record) == Append(ofs, DefaultLine(record))


(***************************************************************************)
(* std::function<void(std::ostream &, Record &)>                           *)
(*                                                                         *)
(* The object is three words: the stored target (_M_functor), _M_manager   *)
(* and _M_invoker.  An empty one has _M_manager null; operator() throws    *)
(* std::bad_function_call when _M_manager is null and otherwise calls      *)
(* _M_invoker on _M_functor.  A move takes _M_manager and _M_invoker out   *)
(* of a source that holds a target and leaves its _M_functor as it was; a  *)
(* move from an empty source gives zeroed words.  A thread that reads the  *)
(* object while another assigns to it may see words of the old and of the  *)
(* new value.                                                              *)
(***************************************************************************)
DefaultFn ==
  [functor |-> "default_formatter", manager |-> "set", invoker |-> "set"]

EmptyFn == [functor |-> "null", manager |-> "null", invoker |-> "null"]

\* A std::function that holds a formatter of the caller which appends to
\* an in-memory buffer of the caller.  Builder's formatter member has room
\* for it; the constructor that takes a formatter is private.
BufferFn ==
  [functor |-> "buffer_formatter", manager |-> "set", invoker |-> "set"]

\* The caller's formatter: it appends the message to the buffer and leaves
\* the stream alone.
buffer_formatter(buf, record) == Append(buf, get_args(record))

\* function(function &&x), the temporary of the move assignment: the words
\* of x if x holds a target; of an empty x only _M_invoker is copied and the
\* other words are zero.
MovedTo(f) ==
  IF f.manager = "null"
    THEN [functor |-> "null", manager |-> "null", invoker |-> f.invoker]
    ELSE f

\* x after function(function &&x): if it held a target its _M_manager and
\* _M_invoker are null and its _M_functor is as it was; an empty x is
\* left alone.
MovedFrom(f) ==
  IF f.manager = "null" THEN f
  ELSE [f EXCEPT !.manager = "null", !.invoker = "null"]

\* What a call of operator() on the words f does: it throws, it calls
\* through a null pointer (the process is killed), or the target runs.
Outcome(f) ==
  IF f.manager = "null" THEN "bad_function_call"
  ELSE IF f.invoker = "null" \/ f.functor = "null" THEN "crash"
  ELSE "emitted"

\* Builder::g_builder.formatter(std::cout, record), the stream afterwards:
\* default_formatter writes the line; another target, or a call that throws
\* or faults, writes nothing to it (a caller that catches
\* std::bad_function_call goes on with the state as it is).
Invoke(f, ofs, record) ==
  IF Outcome(f) = "emitted" /\ f.functor = "default_formatter"
    THEN default_formatter(ofs, record)
    ELSE ofs

\* Builder::g_builder.formatter(std::cout, record), the caller's buffer
\* afterwards: only the caller's formatter appends to it.
InvokeBuffer(f, buf, record) ==
  IF Outcome(f) = "emitted" /\ f.functor = "buffer_formatter"
    THEN buffer_formatter(buf, record)
    ELSE buf

(***************************************************************************)
(* Builder                                                                 *)
(***************************************************************************)
\* Builder(): level Warning, formatter default_formatter.
BuilderDefault == [level |-> Warning, formatter |-> DefaultFn]

\* The result of std::getenv: a null pointer or a C string.
nullptr == [set |-> FALSE, value |-> <<>>]

CString(s) == [set |-> TRUE, value |-> s]

\* A from_env that compares the value as it is, without lower-casing it.
Mut_from_env(cpp_log) ==
  IF ~cpp_log.set THEN BuilderDefault
  ELSE LET log_level == cpp_log.value
       IN IF log_level = <<116, 114, 97, 99, 101>>
            THEN [BuilderDefault EXCEPT !.level = Trace]
          ELSE IF log_level = <<100, 101, 98, 117, 103>>
            THEN [BuilderDefault EXCEPT !.level = Debug]
          ELSE IF log_level = <<105, 110, 102, 111>>
            THEN [BuilderDefault EXCEPT !.level = Info]
          ELSE IF log_level = <<119, 97, 114, 110, 105, 110, 103>>
            THEN [BuilderDefault EXCEPT !.level = Warning]
          ELSE IF log_level = <<101, 114, 114, 111, 114>>
            THEN [BuilderDefault EXCEPT !.level = Error]
          ELSE BuilderDefault

\* Builder::from_env, given what std::getenv(name.data()) returned.
from_env(cpp_log) ==
  IF ~cpp_log.set THEN BuilderDefault
  ELSE LET log_level == transform_tolower(cpp_log.value)
       IN IF log_level = <<116, 114, 97, 99, 101>>
            THEN [BuilderDefault EXCEPT !.level = Trace]
          ELSE IF log_level = <<100, 101, 98, 117, 103>>
            THEN [BuilderDefault EXCEPT !.level = Debug]
          ELSE IF log_level = <<105, 110, 102, 111>>
            THEN [BuilderDefault EXCEPT !.level = Info]
          ELSE IF log_level = <<119, 97, 114, 110, 105, 110, 103>>
            THEN [BuilderDefault EXCEPT !.level = Warning]
          ELSE IF log_level = <<101, 114, 114, 111, 114>>
            THEN [BuilderDefault EXCEPT !.level = Error]
          ELSE BuilderDefault

\* A move assignment that leaves the level of the target as it was.
MutMoveAssignLevel(dst, src) == dst

\* Builder &operator=(Builder &&) = default, first member: level.
MoveAssignLevel(dst, src) == [dst EXCEPT !.level = src.level]

\* Builder &operator=(Builder &&) = default, second member: one word of the
\* formatter.  function(std::move(src.formatter)).swap(dst.formatter) stores
\* the word of the temporary; src is the source as it was before the move.
MoveAssignWord(dst, src, w) ==
  [dst EXCEPT !.formatter = [@ EXCEPT ![w] = MovedTo(src.formatter)[w]]]

\* Builder &operator=(Builder &&) = default, second member: the formatter,
\* word by word in the order functor, manager, invoker.
MoveAssignFormatter(dst, src) ==
  MoveAssignWord(MoveAssignWord(MoveAssignWord(dst, src, "functor"),
                                src, "manager"),
                 src, "invoker")

(***************************************************************************)
(* The inputs the model draws from.                                        *)
(***************************************************************************)
\* The Builder variables of the caller.  A variable that is constructed again
\* stands for a new object that takes the place of one that went out of scope.
BuilderIds == {"b"}

\* What the environment variable may hold: the five names in several
\* casings, near misses, the empty string, or nothing.
EnvValues ==
  { nullptr,
    CString(<<116, 114, 97, 99, 101>>),            \* trace
    CString(<<84, 82, 65, 67, 69>>),               \* TRACE
    CString(<<100, 101, 98, 117, 103>>),           \* debug
    CString(<<68, 101, 66, 117, 71>>),             \* DeBuG
    CString(<<73, 110, 102, 111>>),                \* Info
    CString(<<119, 65, 114, 78, 105, 78, 103>>),   \* wArNiNg
    CString(<<69, 82, 82, 79, 82>>),               \* ERROR
    CString(<<101, 114, 114, 111, 114>>),          \* error
    CString(<<119, 97, 114, 110>>),                \* warn
    CString(<<101, 114, 114, 111, 114, 115>>),     \* errors
    CString(<<118, 101, 114, 98, 111, 115, 101>>), \* verbose
    CString(<<84, 82, 64, 67, 69>>),               \* TR@CE
    CString(<<>>) }

StrArg(s) == [kind |-> "str", s |-> s, n |-> 0]

IntArg(n) == [kind |-> "int", s |-> <<>>, n |-> n]

\* An argument of a user-defined type: its formatter writes s, and is code
\* of the caller that may call the library while std::format runs.
UserArg(s) == [kind |-> "user", s |-> s, n |-> 0]

\* The call sites: a template, its arguments and the std::source_location.
CallSites ==
  { \* foo.ext:3:7  X("bar")
    [fmt |-> <<98, 97, 114>>, args |-> <<>>,
     loc |-> [file_name |-> <<102, 111, 111, 46, 101, 120, 116>>,
              line |-> 3, column |-> 7]],
    \* example.cc:120:38  X("Hello, {}! {{{}}} {}", "world", 2, W{})
    [fmt |-> <<72, 101, 108, 108, 111, 44, 32, 123, 125, 33, 32,
               123, 123, 123, 125, 125, 125, 32, 123, 125>>,
     args |-> <<StrArg(<<119, 111, 114, 108, 100>>), IntArg(2),
                UserArg(<<87>>)>>,
     loc |-> [file_name |-> <<101, 120, 97, 109, 112, 108, 101, 46, 99, 99>>,
              line |-> 120, column |-> 38]] }

\* std::format of this call site runs code of the caller.
UserCode(site) == \E i \in 1..Len(site.args) : site.args[i].kind = "user"

\* The Records the caller hands to default_formatter itself.
DirectRecords ==
  { \* Info, "bar", foo.ext:3:7
    Record(Info, <<98, 97, 114>>,
           [file_name |-> <<102, 111, 111, 46, 101, 120, 116>>,
            line |-> 3, column |-> 7]),
    \* Error, "", a:0:0
    Record(Error, <<>>, [file_name |-> <<97>>, line |-> 0, column |-> 0]) }

(***************************************************************************)
(* The state.                                                              *)
(***************************************************************************)
VARIABLES
  builders,   \* the caller's Builder objects: constructed or not, level, formatter
  g_builder,  \* Builder::g_builder, the process-wide instance
  cout,       \* std::cout: the strings written to it, in order
  buffer,     \* the caller's in-memory buffer: the strings appended to it
  last,       \* the most recent call that returned and what it did
  lastInit,   \* the fields of the Builder init was most recently called on
  frames,     \* the entry point calls in progress in the caller's thread
  initT,      \* the thread inside init (concurrent runs only)
  emitT       \* the thread inside an entry point (concurrent runs only)

vars ==
  <<builders, g_builder, cout, buffer, last, lastInit, frames, initT, emitT>>

NotConstructed == [live |-> FALSE, level |-> Warning, formatter |-> EmptyFn]

Constructed(cfg) ==
  [live |-> TRUE, level |-> cfg.level, formatter |-> cfg.formatter]

\* The level and formatter members of a Builder object.
Members(b) == [level |-> builders[b].level, formatter |-> builders[b].formatter]

NoSite ==
  [fmt |-> <<>>, args |-> <<>>,
   loc |-> [file_name |-> <<>>, line |-> 0, column |-> 0]]

NoRecord == Record(Trace, <<>>, NoSite.loc)

NoCall ==
  [op |-> "none", b |-> "b", env |-> nullptr, sev |-> Trace, site |-> NoSite,
   level |-> Warning, passed |-> FALSE, formatted |-> FALSE,
   recorded |-> FALSE, record |-> NoRecord, callee |-> EmptyFn,
   outcome |-> "none", entry |-> BuilderDefault, configs |-> {},
   overlapped |-> FALSE]

InitIdle ==
  [pc |-> "idle", b |-> "b", src |-> BuilderDefault, old |-> BuilderDefault]

EmitIdle ==
  [pc |-> "idle", sev |-> Trace, site |-> NoSite, level |-> Warning,
   manager |-> "null", invoker |-> "null", entry |-> BuilderDefault,
   configs |-> {},
   overlapped |-> FALSE]

\* The process has not been killed.
Alive == emitT.pc # "crashed"

\* inline Builder Builder::g_builder = Builder{};
Init ==
  /\ builders = [b \in BuilderIds |-> NotConstructed]
  /\ g_builder = BuilderDefault
  /\ cout = <<>>
  /\ buffer = <<>>
  /\ last = NoCall
  /\ lastInit = BuilderDefault
  /\ frames = <<>>
  /\ initT = InitIdle
  /\ emitT = EmitIdle

(***************************************************************************)
(* The caller's operations on Builder objects.  In a single-threaded run   *)
(* they are called between entry point calls or, by the formatter of a     *)
(* user-defined argument, inside one.                                      *)
(***************************************************************************)
\* Builder b;
BuilderCtor(b) ==
  /\ Alive
  /\ initT.pc = "idle"
  /\ builders' = [builders EXCEPT ![b] = Constructed(BuilderDefault)]
  /\ last' = [NoCall EXCEPT !.op = "Builder", !.b = b]
  /\ UNCHANGED <<g_builder, cout, lastInit, frames, initT, emitT, buffer>>

\* Builder b = Builder::from_env(name); the variable holds cpp_log now.
FromEnv(b, cpp_log) ==
  /\ Alive
  /\ initT.pc = "idle"
  /\ builders' = [builders EXCEPT ![b] = Constructed(from_env(cpp_log))]
  /\ last' = [NoCall EXCEPT !.op = "from_env", !.b = b, !.env = cpp_log]
  /\ UNCHANGED <<g_builder, cout, lastInit, frames, initT, emitT, buffer>>

\* b.init(): g_builder = std::move(*this), as one step of the one thread.
init(b) ==
  /\ initT.pc = "idle"
  /\ emitT.pc = "idle"
  /\ builders[b].live
  /\ g_builder' = MoveAssignFormatter(MoveAssignLevel(g_builder, Members(b)),
                                      Members(b))
  /\ builders' = [builders EXCEPT ![b].formatter = MovedFrom(@)]
  /\ lastInit' = Members(b)
  /\ frames' = [i \in 1..Len(frames) |-> [frames[i] EXCEPT !.overlapped = TRUE]]
  /\ last' = [NoCall EXCEPT !.op = "init", !.b = b]
  /\ UNCHANGED <<cout, initT, emitT, buffer>>

\* default_formatter(std::cout, record), called by the caller itself.
DirectFormat(record) ==
  /\ emitT.pc = "idle"
  /\ Len(cout) + Len(frames) < MaxWrites
  /\ cout' = default_formatter(cout, record)
  /\ last' = [NoCall EXCEPT !.op = "default_formatter", !.record = record]
  /\ UNCHANGED <<builders, g_builder, lastInit, frames, initT, emitT, buffer>>

(***************************************************************************)
(* The entry points.                                                       *)
(***************************************************************************)
\* if (Builder::g_builder.level > Level::...) return;  of each entry point
trace_returns(level) == Greater(level, Debug)

debug_returns(level) == Greater(level, Debug)

info_returns(level) == Greater(level, Info)

warning_returns(level) == Greater(level, Warning)

error_returns(level) == Greater(level, Error)

\* The early return of the entry point of severity S.
Returns(S, level) ==
  CASE S = Trace -> trace_returns(level)
    [] S = Debug -> debug_returns(level)
    [] S = Info -> info_returns(level)
    [] S = Warning -> warning_returns(level)
    [] S = Error -> error_returns(level)

\* What a call of the entry point of severity S did.  c gives the level it
\* tested, the formatter words it saw at its call (callee) and, for the
\* properties, the configuration installed when it tested the level (entry),
\* those process-wide during it (configs) and whether an init ran during it.
Call(S, site, c) ==
  LET returned == Returns(S, c.level)
  IN [NoCall EXCEPT
        !.op = "emit", !.sev = S, !.site = site, !.level = c.level,
        !.passed = ~returned, !.formatted = ~returned, !.recorded = ~returned,
        !.record = IF returned THEN NoRecord
                   ELSE Record(S, Format(site.fmt, site.args), site.loc),
        !.callee = IF returned THEN EmptyFn ELSE c.callee,
        !.outcome = IF returned THEN "suppressed" ELSE Outcome(c.callee),
        !.entry = c.entry, !.configs = c.configs,
        !.overlapped = c.overlapped]

\* An entry point whose arguments std::format renders without code of the
\* caller: test, std::format, Record and formatter call are one step.
Emit(S, site) ==
  /\ emitT.pc = "idle"
  /\ initT.pc = "idle"
  /\ Len(cout) + Len(frames) < MaxWrites
  /\ last' = Call(S, site, [level |-> g_builder.level,
                            callee |-> g_builder.formatter,
                            entry |-> lastInit, configs |-> {lastInit},
                            overlapped |-> FALSE])
  /\ cout' = IF Returns(S, g_builder.level) THEN cout
             ELSE Invoke(g_builder.formatter, cout,
                         Record(S, Format(site.fmt, site.args), site.loc))
  /\ buffer' = IF Returns(S, g_builder.level) THEN buffer
               ELSE InvokeBuffer(g_builder.formatter, buffer,
                                 Record(S, Format(site.fmt, site.args),
                                        site.loc))
  /\ UNCHANGED <<builders, g_builder, lastInit, frames, initT, emitT>>

\* An entry point with an argument of a user-defined type is entered: it
\* tests g_builder.level and returns, or goes on to std::format, where the
\* formatter of the argument runs.
EmitEnter(S, site) ==
  /\ emitT.pc = "idle"
  /\ initT.pc = "idle"
  /\ Len(frames) < MaxDepth
  /\ Len(cout) + Len(frames) < MaxWrites
  /\ IF Returns(S, g_builder.level)
       THEN /\ last' = Call(S, site, [level |-> g_builder.level,
                                      callee |-> EmptyFn,
                                      entry |-> lastInit,
                                      configs |-> {lastInit},
                                      overlapped |-> FALSE])
            /\ frames' = frames
       ELSE /\ frames' = Append(frames, [sev |-> S, site |-> site,
                                         level |-> g_builder.level,
                                         entry |-> lastInit,
                                         overlapped |-> FALSE])
            /\ last' = [NoCall EXCEPT !.op = "entered"]
  /\ UNCHANGED <<builders, g_builder, cout, lastInit, initT, emitT, buffer>>

\* std::format of the innermost call in progress returns; the entry point
\* builds the Record and calls g_builder.formatter as it is now.
EmitReturn ==
  /\ frames # <<>>
  /\ LET top == frames[Len(frames)]
     IN /\ last' = Call(top.sev, top.site,
                        [level |-> top.level, callee |-> g_builder.formatter,
                         entry |-> top.entry,
                         configs |-> {top.entry, lastInit},
                         overlapped |-> top.overlapped])
        /\ cout' = Invoke(g_builder.formatter, cout,
                          Record(top.sev, Format(top.site.fmt, top.site.args),
                                 top.site.loc))
        /\ buffer' = InvokeBuffer(g_builder.formatter, buffer,
                                  Record(top.sev,
                                         Format(top.site.fmt, top.site.args),
                                         top.site.loc))
  /\ frames' = SubSeq(frames, 1, Len(frames) - 1)
  /\ UNCHANGED <<builders, g_builder, lastInit, initT, emitT>>

\* A call of the entry point of severity S at a call site.
Entry(S, site) == IF UserCode(site) THEN EmitEnter(S, site) ELSE Emit(S, site)

trace(site) == Entry(Trace, site)

debug(site) == Entry(Debug, site)

info(site) == Entry(Info, site)

warning(site) == Entry(Warning, site)

error(site) == Entry(Error, site)

Next ==
  \/ \E b \in BuilderIds : BuilderCtor(b)
  \/ \E b \in BuilderIds, v \in EnvValues : FromEnv(b, v)
  \/ \E b \in BuilderIds : init(b)
  \/ \E record \in DirectRecords : DirectFormat(record)
  \/ \E site \in CallSites : trace(site)
  \/ \E site \in CallSites : debug(site)
  \/ \E site \in CallSites : info(site)
  \/ \E site \in CallSites : warning(site)
  \/ \E site \in CallSites : error(site)
  \/ EmitReturn

\* A single-threaded run.
Spec == Init /\ [][Next]_vars

(***************************************************************************)
(* A run with two threads and no synchronisation: one thread constructs    *)
(* Builders and calls init, the other calls the entry points.  The move    *)
(* assignment of init writes g_builder.level, moves this->formatter into a *)
(* temporary and then writes the three words of g_builder.formatter; an    *)
(* entry point reads g_builder.level at its test, g_builder.formatter's    *)
(* _M_manager when operator() is entered, then _M_invoker to call it, and  *)
(* _M_functor inside the invoker.  The steps of the two threads            *)
(* interleave.  The emitting thread also calls default_formatter itself.   *)
(* The concurrent run draws its inputs from smaller sets than the          *)
(* single-threaded one.                                                    *)
(***************************************************************************)
ConcEnvValues ==
  { nullptr,
    CString(<<84, 82, 65, 67, 69>>),     \* TRACE
    CString(<<101, 114, 114, 111, 114>>) \* error
  }

ConcCallSites == {site \in CallSites : ~UserCode(site)}

\* The configurations that are process-wide at some time during a call that
\* begins now: the one last installed and, if init is running, the one before.
ActiveNow == IF initT.pc = "idle" THEN {lastInit} ELSE {initT.old, lastInit}

\* Builder b; or Builder b = Builder::from_env(name); on the init thread.
ConcConstruct(b, cpp_log) ==
  /\ cpp_log \in ConcEnvValues
  /\ \/ BuilderCtor(b)
     \/ FromEnv(b, cpp_log)

\* b.init() is entered: *this is about to be moved into g_builder.
InitBegin(b) ==
  /\ Alive
  /\ initT.pc = "idle"
  /\ builders[b].live
  /\ initT' = [pc |-> "level", b |-> b, src |-> Members(b), old |-> lastInit]
  /\ lastInit' = Members(b)
  /\ emitT' = IF emitT.pc = "idle" THEN emitT
              ELSE [emitT EXCEPT !.configs = @ \cup {Members(b)},
                                 !.overlapped = TRUE]
  /\ last' = [NoCall EXCEPT !.op = "init", !.b = b]
  /\ UNCHANGED <<builders, g_builder, cout, frames, buffer>>

\* g_builder.level = this->level
InitWriteLevel ==
  /\ Alive
  /\ initT.pc = "level"
  /\ g_builder' = MoveAssignLevel(g_builder, initT.src)
  /\ initT' = [initT EXCEPT !.pc = "move"]
  /\ UNCHANGED <<builders, cout, last, lastInit, frames, emitT, buffer>>

\* g_builder.formatter = std::move(this->formatter): the temporary is
\* constructed from this->formatter, which is left moved from.
InitMoveFormatter ==
  /\ Alive
  /\ initT.pc = "move"
  /\ builders' = [builders EXCEPT ![initT.b].formatter = MovedFrom(@)]
  /\ initT' = [initT EXCEPT !.pc = "functor"]
  /\ UNCHANGED <<g_builder, cout, last, lastInit, frames, emitT, buffer>>

\* ... the temporary is swapped with g_builder.formatter: _M_functor is
\* written.
InitWriteFunctor ==
  /\ Alive
  /\ initT.pc = "functor"
  /\ g_builder' = MoveAssignWord(g_builder, initT.src, "functor")
  /\ initT' = [initT EXCEPT !.pc = "manager"]
  /\ UNCHANGED <<builders, cout, last, lastInit, frames, emitT, buffer>>

\* ... _M_manager is written.
InitWriteManager ==
  /\ Alive
  /\ initT.pc = "manager"
  /\ g_builder' = MoveAssignWord(g_builder, initT.src, "manager")
  /\ initT' = [initT EXCEPT !.pc = "invoker"]
  /\ UNCHANGED <<builders, cout, last, lastInit, frames, emitT, buffer>>

\* ... _M_invoker is written and init returns.
InitWriteInvoker ==
  /\ Alive
  /\ initT.pc = "invoker"
  /\ g_builder' = MoveAssignWord(g_builder, initT.src, "invoker")
  /\ initT' = InitIdle
  /\ UNCHANGED <<builders, cout, last, lastInit, frames, emitT, buffer>>

\* An entry point is entered and tests g_builder.level.
EmitBegin(S, site) ==
  /\ emitT.pc = "idle"
  /\ Len(cout) < MaxWrites
  /\ IF Returns(S, g_builder.level)
       THEN /\ last' = Call(S, site, [level |-> g_builder.level,
                                      callee |-> EmptyFn,
                                      entry |-> lastInit,
                                      configs |-> ActiveNow,
                                      overlapped |-> initT.pc # "idle"])
            /\ emitT' = emitT
       ELSE /\ emitT' = [pc |-> "call", sev |-> S, site |-> site,
                         level |-> g_builder.level, manager |-> "null",
                         invoker |-> "null", entry |-> lastInit,
                         configs |-> ActiveNow,
                         overlapped |-> initT.pc # "idle"]
            /\ last' = [NoCall EXCEPT !.op = "entered"]
  /\ UNCHANGED <<builders, g_builder, cout, lastInit, frames, initT, buffer>>

\* The entry point has formatted the message and built the Record; it
\* enters g_builder.formatter's operator(), which tests _M_manager and
\* throws std::bad_function_call if it is null.
EmitCall ==
  /\ emitT.pc = "call"
  /\ IF g_builder.formatter.manager = "null"
       THEN /\ last' = Call(emitT.sev, emitT.site,
                            [level |-> emitT.level, callee |-> EmptyFn,
                             entry |-> emitT.entry,
                             configs |-> emitT.configs,
                             overlapped |-> emitT.overlapped])
            /\ emitT' = EmitIdle
       ELSE /\ emitT' = [emitT EXCEPT !.pc = "load",
                                      !.manager = g_builder.formatter.manager]
            /\ last' = last
  /\ UNCHANGED <<builders, g_builder, cout, lastInit, frames, initT, buffer>>

\* operator() loads _M_invoker to call it: a null one is a call through a
\* null pointer and the process is killed.
EmitLoadInvoker ==
  /\ emitT.pc = "load"
  /\ IF g_builder.formatter.invoker = "null"
       THEN /\ last' = Call(emitT.sev, emitT.site,
                            [level |-> emitT.level,
                             callee |-> [functor |-> "null",
                                         manager |-> emitT.manager,
                                         invoker |-> "null"],
                             entry |-> emitT.entry,
                             configs |-> emitT.configs,
                             overlapped |-> emitT.overlapped])
            /\ emitT' = [EmitIdle EXCEPT !.pc = "crashed"]
       ELSE /\ emitT' = [emitT EXCEPT !.pc = "invoke",
                                      !.invoker = g_builder.formatter.invoker]
            /\ last' = last
  /\ UNCHANGED <<builders, g_builder, cout, lastInit, frames, initT, buffer>>

\* The invoker loads the target from _M_functor as it is now and calls it:
\* the target writes the line, or the call goes through a null pointer and
\* the process is killed.
EmitInvoke ==
  /\ emitT.pc = "invoke"
  /\ LET seen == [functor |-> g_builder.formatter.functor,
                  manager |-> emitT.manager,
                  invoker |-> emitT.invoker]
         record == Record(emitT.sev, Format(emitT.site.fmt, emitT.site.args),
                          emitT.site.loc)
     IN /\ last' = Call(emitT.sev, emitT.site,
                        [level |-> emitT.level, callee |-> seen,
                         entry |-> emitT.entry, configs |-> emitT.configs,
                         overlapped |-> emitT.overlapped])
        /\ cout' = Invoke(seen, cout, record)
        /\ buffer' = InvokeBuffer(seen, buffer, record)
        /\ emitT' = IF Outcome(seen) = "crash"
                      THEN [EmitIdle EXCEPT !.pc = "crashed"]
                      ELSE EmitIdle
  /\ UNCHANGED <<builders, g_builder, lastInit, frames, initT>>

NextConc ==
  \/ \E b \in BuilderIds, v \in ConcEnvValues : ConcConstruct(b, v)
  \/ \E b \in BuilderIds : InitBegin(b)
  \/ InitWriteLevel
  \/ InitMoveFormatter
  \/ InitWriteFunctor
  \/ InitWriteManager
  \/ InitWriteInvoker
  \/ \E record \in DirectRecords : DirectFormat(record)
  \/ \E S \in Level, site \in ConcCallSites : EmitBegin(S, site)
  \/ EmitCall
  \/ EmitLoadInvoker
  \/ EmitInvoke

\* A run with an init thread and an emitting thread.
SpecConc == Init /\ [][NextConc]_vars

(***************************************************************************)
(* The vocabulary of the properties.                                       *)
(***************************************************************************)
\* M is at least as severe as L in the order Trace < Debug < ... < Error.
AtLeast(M, L) == M >= L

\* The lower-case name of a level.
LowerName(L) ==
  CASE L = Trace -> <<116, 114, 97, 99, 101>>
    [] L = Debug -> <<100, 101, 98, 117, 103>>
    [] L = Info -> <<105, 110, 102, 111>>
    [] L = Warning -> <<119, 97, 114, 110, 105, 110, 103>>
    [] L = Error -> <<101, 114, 114, 111, 114>>

\* The display name of a level: the lower-case name in upper case.
UpperName(L) == [i \in 1..Len(LowerName(L)) |-> LowerName(L)[i] - 32]

\* The digits of the ANSI colour of a level: 37, 34, 32, 33, 31.
ColourDigits(L) ==
  CASE L = Trace -> <<51, 55>>
    [] L = Debug -> <<51, 52>>
    [] L = Info -> <<51, 50>>
    [] L = Warning -> <<51, 51>>
    [] L = Error -> <<51, 49>>

\* v spells the lower-case word name in some letter-casing.
SpellsInAnyCase(v, name) ==
  /\ Len(v) = Len(name)
  /\ \A i \in 1..Len(name) : v[i] = name[i] \/ v[i] = name[i] - 32

\* "[" + colour + NAME + reset + " " + file + ":" + line + ":" + column
\*   + "] " + message + "\n"
ExpectedLine(record) ==
  <<91>> \o <<27, 91>> \o ColourDigits(record.level) \o <<109>>
    \o UpperName(record.level) \o <<27, 91, 48, 109>>
    \o <<32>> \o record.loc.file_name
    \o <<58>> \o Dec(record.loc.line) \o <<58>> \o Dec(record.loc.column)
    \o <<93, 32>> \o record.args \o <<10>>

\* Info, ("foo.ext", 3, 7), "bar"
ExampleRecord ==
  [level |-> Info, args |-> <<98, 97, 114>>,
   loc |-> [file_name |-> <<102, 111, 111, 46, 101, 120, 116>>,
            line |-> 3, column |-> 7]]

\* "[\x1b[32mINFO\x1b[0m foo.ext:3:7] bar\n"
ExampleLine ==
  <<91, 27, 91, 51, 50, 109, 73, 78, 70, 79, 27, 91, 48, 109, 32,
    102, 111, 111, 46, 101, 120, 116, 58, 51, 58, 55, 93, 32, 98, 97, 114, 10>>

\* What a std::function holds, by its words: nothing, a target, or words
\* that are those of no std::function.
Target(f) ==
  IF f.manager = "null" THEN "empty"
  ELSE IF f.invoker = "null" \/ f.functor = "null" THEN "torn"
  ELSE f.functor

\* A Builder's members as a configuration: its level and what its formatter
\* holds.
Config(cfg) == [level |-> cfg.level, target |-> Target(cfg.formatter)]

\* The level one call tested and the formatter it saw, as a configuration.
Used(call) == [level |-> call.level, target |-> Target(call.callee)]

(***************************************************************************)
(* The properties.                                                         *)
(***************************************************************************)
\* C1: a call of the entry point of severity M under the configured level L
\* invokes the formatter (the message is emitted) if and only if M >= L.
C1_EmittedIffAtLeast ==
  last.op = "emit" =>
    (last.outcome = "emitted" <=> AtLeast(last.sev, last.level))

\* C2: a call of severity M under a configured level L with M < L returns
\* without rendering the template, without constructing a Record and without
\* invoking the formatter, and leaves the sink and the configuration as
\* they were.
C2_SuppressedNoEffect ==
  [][(last'.op = "emit" /\ Less(last'.sev, last'.level)) =>
       /\ ~last'.formatted
       /\ ~last'.recorded
       /\ last'.outcome = "suppressed"
       /\ cout' = cout
       /\ g_builder' = g_builder]_vars

\* C3: an emission whose severity equals the configured level is never
\* suppressed: the formatter is invoked once for it.
C3_InclusiveBoundary ==
  (last.op = "emit" /\ last.sev = last.level) =>
    /\ last.outcome = "emitted"
    /\ Len(cout) >= 1

\* C4: in a single-threaded run every emission is filtered by the level of
\* the Builder of the most recent init that preceded it (of the default,
\* level Warning and default formatter, before any init), and an emission
\* during which no init runs calls the formatter of that Builder if it
\* passes; init installs both members of its Builder together; a Debug
\* emission under the default is suppressed and under a Debug-level
\* configuration passes the filter.
C4_InitGoverns ==
  /\ last.op = "none" => g_builder = [level |-> Warning,
                                      formatter |-> DefaultFn]
  /\ last.op = "init" => Config(g_builder) = Config(lastInit)
  /\ last.op = "emit" =>
       /\ last.level = last.entry.level
       /\ ~last.overlapped => last.entry = lastInit
       /\ (last.passed /\ ~last.overlapped) =>
            Target(last.callee) = Target(last.entry.formatter)
       /\ (last.sev = Debug /\ last.entry.level = Warning) => ~last.passed
       /\ (last.sev = Debug /\ last.entry.level = Debug) => last.passed

\* C4 witness: a Debug emission entered after init of a Debug-level Builder
\* passed the filter and was written, although the formatter of its
\* argument had installed an Error-level Builder before it was.
C4_Witness ==
  /\ last.op = "emit" /\ last.sev = Debug
  /\ last.entry = [level |-> Debug, formatter |-> DefaultFn]
  /\ last.overlapped
  /\ lastInit.level = Error
  /\ last.outcome = "emitted"
  /\ Len(cout) = 1

\* C5: from_env returns a constructed Builder with the default formatter
\* whose level is the level whose name the variable spells in any
\* letter-casing, and Warning when the variable is unset or spells none.
C5_FromEnv ==
  last.op = "from_env" =>
    /\ builders[last.b].live
    /\ builders[last.b].formatter = DefaultFn
    /\ \A L \in Level :
         (last.env.set /\ SpellsInAnyCase(last.env.value, LowerName(L)))
           => builders[last.b].level = L
    /\ (~last.env.set
        \/ \A L \in Level : ~SpellsInAnyCase(last.env.value, LowerName(L)))
         => builders[last.b].level = Warning

\* C5 witness: the variable held "DeBuG" and the Builder has level Debug.
C5_Witness ==
  /\ last.op = "from_env"
  /\ last.env = CString(<<68, 101, 66, 117, 71>>)
  /\ builders[last.b].level = Debug

\* C6: the default formatter, called by an entry point or by the caller,
\* appends to the sink exactly
\* "[" + colour + NAME + reset + " " + file + ":" + line + ":" + column + "] "
\* + message + "\n" for the Record it is given; Info, ("foo.ext", 3, 7), "bar"
\* gives "[\x1b[32mINFO\x1b[0m foo.ext:3:7] bar\n".
C6_DefaultFormat ==
  ((last.op = "emit" /\ last.outcome = "emitted")
   \/ last.op = "default_formatter") =>
    /\ Len(cout) >= 1
    /\ cout[Len(cout)] = ExpectedLine(last.record)
    /\ last.record = ExampleRecord => cout[Len(cout)] = ExampleLine

\* C6 witness: the caller gave the example Record to the default formatter
\* and it was written as the example line, after a line with a two- and a
\* three-digit location.
C6_Witness ==
  /\ last.op = "default_formatter"
  /\ last.record = ExampleRecord
  /\ Len(cout) = 2
  /\ cout[2] = ExampleLine
  /\ \E i \in 1..(Len(cout[1]) - 6) :
       SubSeq(cout[1], i, i + 6) = <<58, 49, 50, 48, 58, 51, 56>>

\* C7: the caller holds a formatter that appends to its in-memory buffer
\* and installs its configuration through init; the emission that follows
\* and passes the filter is delivered to the buffer and not to std::cout.
\* (A configuration of the caller is a Builder the public operations give.)
C7_BufferFormatter ==
  [][(last.op = "init" /\ last'.op = "emit" /\ last'.passed) =>
       /\ buffer' = Append(buffer, get_args(last'.record))
       /\ cout' = cout]_vars

\* C7, the install itself: whatever the caller constructs and installs,
\* g_builder never holds the caller's formatter and the buffer stays empty.
C7_NeverInstalled ==
  /\ g_builder.formatter # BufferFn
  /\ \A b \in BuilderIds : builders[b].formatter # BufferFn
  /\ buffer = <<>>

\* C8: every emission that passes the filter adds exactly one line at the
\* end of the sink, and an emission that does not leaves the sink as it
\* was, so the sink holds one line per passing emission in call order.
C8_OneLinePerPassingCall ==
  [][last'.op = "emit" =>
       IF last'.passed
         THEN /\ Len(cout') = Len(cout) + 1
              /\ SubSeq(cout', 1, Len(cout)) = cout
         ELSE cout' = cout]_vars

\* C9: when an emission runs concurrently with init, the level it filters by
\* and the formatter it invokes are those of one configuration that was
\* process-wide during the call: the one before an init or the one it
\* installs.
C9_AtomicInit ==
  (last.op = "emit" /\ last.passed) =>
    Used(last) \in {Config(c) : c \in last.configs}

\* C9, apart from empty formatters: an emission during which every
\* process-wide configuration holds default_formatter uses the level and
\* the formatter of one of them and is written.
C9_CallableConfigs ==
  (/\ last.op = "emit" /\ last.passed
   /\ \A c \in last.configs : Target(c.formatter) = "default_formatter") =>
    /\ Used(last) \in {Config(c) : c \in last.configs}
    /\ last.outcome = "emitted"

\* C10: after any sequence of constructions, from_env calls and init calls
\* the process-wide configuration holds a callable formatter, and every
\* emission that passes the filter invokes a formatter.
C10_FormatterCallable ==
  /\ g_builder.formatter.manager # "null"
  /\ (last.op = "emit" /\ last.passed) => last.outcome = "emitted"

=============================================================================
